---- MODULE Spec2Model ----
(***************************************************************************)
(* Delegation chains and delegation identities of                          *)
(* packages/authentication/src/identity/delegation.ts.                     *)
(*                                                                         *)
(* Byte strings (BinaryBlob, DerEncodedBlob) are sequences of 0..255.      *)
(* JavaScript strings are sequences of one-character strings.              *)
(* A DelegationChain object lives in `heap`; a create call that has not    *)
(* returned yet, or that failed, owns the empty slot NoChain. The options  *)
(* object a caller passes to create lives in `options`; the caller keeps   *)
(* it and may write it while the call is suspended.                        *)
(***************************************************************************)
EXTENDS Integers, Sequences, FiniteSets, TLC

\* ------------------------------------------------------------- bounds
\* create calls of a run, and the operations of a run: the calls (create,
\* fromDelegation, transformRequest, sign) and the callers' assignments to
\* options objects.
MaxCreates == 3
MaxOps == 4
\* Entries of the `delegations` array of a parsed JSON input.
MaxEntries == 2

\* `value.length < 64` of parseBlob.
MinHexLen == 64

\* The signers (key pairs) of the run; signer k holds key k.
Signers == {1, 2}
\* The <<from, to>> of the create calls. The signers are alike, and the first
\* call of a run is made by signer 1.
Handovers == Signers \X Signers
FirstHandovers == {h \in Handovers : h[1] = 1}
\* Date values (milliseconds since the epoch) the callers pass as `expiration`.
Dates == {1}
\* Failures the external signer may reject a sign call with.
SignErrors == {"cancelled"}
\* Failures the external requestIdOf may reject with.
HashErrors == {"unhashable"}
\* The requests callers pass to transformRequest (a body, opaque to this
\* code, and one other top-level field) and the blobs they pass to sign.
Requests == {[body |-> 0, endpoint |-> "call"], [body |-> 1, endpoint |-> "read_state"]}
Blobs == {<<7>>}

\* ---------------------------------------------------- external primitives
\* The DER public key of signer k (SignIdentity.getPublicKey().toDer()).
DerOf(k) == <<48, k>>

\* What signer k's sign returns for msg when it succeeds: a recording mock,
\* the signer's tag followed by the message it was handed.
MockSign(k, msg) == <<100 + k>> \o msg

\* BigNumber values: the number n / 16^places with the fewest places, an
\* infinity (n: its sign), not-a-number.
Finite(n) == [kind |-> "finite", n |-> n, places |-> 0]
Infinite(sign) == [kind |-> "Infinity", n |-> sign, places |-> 0]
BigNaN == [kind |-> "NaN", n |-> 0, places |-> 0]

\* requestIdOf: a deterministic fixed-length digest of a structured record.
Digest(h) == <<h, h, h, h>>
requestIdOfDelegation(d) ==
    Digest((d.pubkey[Len(d.pubkey)] + (d.expiration.n \div 1000000) + Len(d.targets)) % 2)
requestIdOfBody(body) == Digest(body % 2)

\* ------------------------------------------------------ domain separators
\* '\x1Aic-request-auth-delegation'
domainSeparator ==
    <<26, 105, 99, 45, 114, 101, 113, 117, 101, 115, 116, 45, 97, 117, 116,
      104, 45, 100, 101, 108, 101, 103, 97, 116, 105, 111, 110>>
\* '\x0Aic-request'
requestDomainSeparator ==
    <<10, 105, 99, 45, 114, 101, 113, 117, 101, 115, 116>>

IsPrefix(p, s) == Len(p) <= Len(s) /\ SubSeq(s, 1, Len(p)) = p

\* ------------------------------------------------------------ the state
VARIABLES
    calls,      \* DelegationChain.create calls, in the order they were made
    heap,       \* heap[c]: the DelegationChain object call c returned
    options,    \* options[c]: `previous` of call c's options object, 0: undefined
    writes,     \* the assignments the callers made to options objects
    ident,      \* the DelegationIdentity object, once constructed
    reqs,       \* transformRequest and sign calls on the identity
    js          \* a fromJSON / toJSON run (the serialization runs only)

vars == <<calls, heap, options, writes, ident, reqs, js>>

NoChain == [delegations |-> <<>>, publicKey |-> <<>>]
NoIdentity == [inner |-> 0, delegation |-> 0]
NoResult == [endpoint |-> "", content |-> 0, sender_sig |-> <<>>,
             sender_delegation |-> <<>>, sender_pubkey |-> <<>>]
NoJson == [pc |-> "idle"]
\* `previous` of a call that has not read options.previous.
NotRead == -1

Ops == Len(calls) + writes + Len(reqs) + (IF ident = NoIdentity THEN 0 ELSE 1)

\* ------------------------------------------------ _createSingleDelegation
\* The Delegation record create builds: create passes no targets.
NewDelegation_FromKey(from, to, date) ==
    [pubkey |-> DerOf(from), expiration |-> Finite(date * 1000000),
     hasTargets |-> FALSE, targets |-> <<>>]

NewDelegation(from, to, date) ==
    [pubkey |-> DerOf(to), expiration |-> Finite(date * 1000000),
     hasTargets |-> FALSE, targets |-> <<>>]

\* The byte string signDelegation hands to identity.sign.
SignDelegationMessage(d) == domainSeparator \o requestIdOfDelegation(d)

\* ------------------------------------------------- DelegationChain.create
\* [...(options.previous?.delegations || []), delegation]
ChainDelegations_Prepend(h, prev, sd) ==
    <<sd>> \o (IF prev # 0 THEN h[prev].delegations ELSE <<>>)

ChainDelegations(h, prev, sd) ==
    (IF prev # 0 THEN h[prev].delegations ELSE <<>>) \o <<sd>>

\* options.previous?.publicKey || from.getPublicKey().toDer()
ChainPublicKey_AlwaysFrom(h, prev, from) == DerOf(from)

ChainPublicKey(h, prev, from) ==
    IF prev # 0 THEN h[prev].publicKey ELSE DerOf(from)

\* The heap after call c's `new DelegationChain(...)`.
HeapAfterCreate_PushIntoPrevious(h, c, prev, from, sd) ==
    LET h2 == IF prev # 0
              THEN [h EXCEPT ![prev].delegations = Append(@, sd)]
              ELSE h
    IN  [h2 EXCEPT ![c] =
            [delegations |-> IF prev # 0 THEN h2[prev].delegations ELSE <<sd>>,
             publicKey   |-> ChainPublicKey(h, prev, from)]]

HeapAfterCreate(h, c, prev, from, sd) ==
    [h EXCEPT ![c] = [delegations |-> ChainDelegations(h, prev, sd),
                      publicKey   |-> ChainPublicKey(h, prev, from)]]

\* The call record once identity.sign rejected with e: the rejection passes
\* through signDelegation, _createSingleDelegation and create unchanged.
CallAfterReject_Retry(call, e) ==
    [call EXCEPT !.signed = Append(@, SignDelegationMessage(call.delegation))]

CallAfterReject(call, e) == [call EXCEPT !.pc = "failed", !.error = e]

\* create(from, to, expiration, options) up to its first suspension, the
\* await of requestIdOf in signDelegation: the delegation record is built and
\* the signer has not been called. The caller passes the options object
\* {previous: prev} (prev = 0: no previous), which create does not read
\* before the signer has answered (CreateReturn). limit bounds the create
\* calls of a run.
CreateCall(limit, from, to, date, prev) ==
    /\ Len(calls) < limit
    /\ Ops < MaxOps
    /\ prev # 0 => (prev \in DOMAIN calls /\ calls[prev].pc = "done")
    /\ LET d == NewDelegation(from, to, date)
       IN  calls' = Append(calls,
              [from |-> from, to |-> to, date |-> date, previous |-> NotRead,
               pc |-> "hashing", delegation |-> d, signed |-> <<>>,
               thrown |-> "", error |-> ""])
    /\ heap' = Append(heap, NoChain)
    /\ options' = Append(options, prev)
    /\ UNCHANGED <<writes, ident, reqs, js>>

\* The caller of the suspended call c assigns options.previous of the options
\* object it passed: another chain it has, or undefined.
SetPrevious(c, prev) ==
    /\ calls[c].pc \in {"hashing", "signing"}
    /\ Ops < MaxOps
    /\ prev # options[c]
    /\ prev # 0 => (prev \in DOMAIN calls /\ calls[prev].pc = "done")
    /\ options' = [options EXCEPT ![c] = prev]
    /\ writes' = writes + 1
    /\ UNCHANGED <<calls, heap, ident, reqs, js>>

\* requestIdOf resolved: signDelegation hands the message to identity.sign
\* and create is suspended on the signer.
CreateSign(c) ==
    /\ calls[c].pc = "hashing"
    /\ calls' = [calls EXCEPT ![c].pc = "signing",
                   ![c].signed = Append(@, SignDelegationMessage(calls[c].delegation))]
    /\ UNCHANGED <<heap, options, writes, ident, reqs, js>>

\* requestIdOf rejected with e: create rejects, the signer is never called.
CreateHashReject(c, e) ==
    /\ calls[c].pc = "hashing"
    /\ calls' = [calls EXCEPT ![c].pc = "failed", ![c].error = e]
    /\ UNCHANGED <<heap, options, writes, ident, reqs, js>>

\* identity.sign resolved: create reads options.previous, as the options
\* object holds it now, and builds and returns the new chain.
CreateReturn(c) ==
    /\ calls[c].pc = "signing"
    /\ LET call == calls[c]
           prev == options[c]
           sd   == [delegation |-> call.delegation,
                    signature  |-> MockSign(call.from, call.signed[Len(call.signed)])]
       IN  /\ heap' = HeapAfterCreate(heap, c, prev, call.from, sd)
           /\ calls' = [calls EXCEPT ![c].pc = "done", ![c].previous = prev]
    /\ UNCHANGED <<options, writes, ident, reqs, js>>

\* identity.sign rejected with e.
CreateReject(c, e) ==
    /\ calls[c].pc = "signing"
    /\ calls' = [calls EXCEPT ![c] = CallAfterReject([calls[c] EXCEPT !.thrown = e], e)]
    /\ UNCHANGED <<heap, options, writes, ident, reqs, js>>

\* ----------------------------------------------------- DelegationIdentity
\* DelegationIdentity.fromDelegation(key, delegation)
FromDelegation(key, c) ==
    /\ ident = NoIdentity
    /\ Ops < MaxOps
    /\ calls[c].pc = "done"
    /\ ident' = [inner |-> key, delegation |-> c]
    /\ UNCHANGED <<calls, heap, options, writes, reqs, js>>

\* getPublicKey().toDer()
GetPublicKeyToDer_Inner(id, h) == DerOf(id.inner)

GetPublicKeyToDer(id, h) == h[id.delegation].publicKey

\* The byte string transformRequest hands to this.sign.
TransformMessage_DelegationSeparator(body) ==
    domainSeparator \o requestIdOfBody(body)

TransformMessage(body) == requestDomainSeparator \o requestIdOfBody(body)

\* The request transformRequest returns once the signature sig is there.
TransformedRequest_InnerKey(req, sig, id, h) ==
    [endpoint |-> req.endpoint, content |-> req.body, sender_sig |-> sig,
     sender_delegation |-> h[id.delegation].delegations,
     sender_pubkey |-> DerOf(id.inner)]

TransformedRequest(req, sig, id, h) ==
    [endpoint |-> req.endpoint, content |-> req.body, sender_sig |-> sig,
     sender_delegation |-> h[id.delegation].delegations,
     sender_pubkey |-> h[id.delegation].publicKey]

NewRequest(kind, body, endpoint, pc, signed) ==
    [kind |-> kind, body |-> body, endpoint |-> endpoint, pc |-> pc,
     signed |-> signed, thrown |-> "", error |-> "", sig |-> <<>>,
     result |-> NoResult]

\* transformRequest(request) up to its first suspension, the await of
\* requestIdOf(body): the inner signer has not been called.
TransformCall(request) ==
    /\ ident # NoIdentity
    /\ Ops < MaxOps
    /\ reqs' = Append(reqs, NewRequest("transform", request.body, request.endpoint,
                                       "hashing", <<>>))
    /\ UNCHANGED <<calls, heap, options, writes, ident, js>>

\* requestIdOf(body) resolved: transformRequest hands the message to
\* this.sign, that is to the inner signer.
TransformSign(r) ==
    /\ reqs[r].pc = "hashing"
    /\ reqs' = [reqs EXCEPT ![r].pc = "signing",
                  ![r].signed = Append(@, TransformMessage(reqs[r].body))]
    /\ UNCHANGED <<calls, heap, options, writes, ident, js>>

\* requestIdOf(body) rejected with e: the inner signer is never called.
TransformHashReject(r, e) ==
    /\ reqs[r].pc = "hashing"
    /\ reqs' = [reqs EXCEPT ![r].pc = "failed", ![r].error = e]
    /\ UNCHANGED <<calls, heap, options, writes, ident, js>>

\* sign(blob): this._inner.sign(blob), called at once.
SignCall(blob) ==
    /\ ident # NoIdentity
    /\ Ops < MaxOps
    /\ reqs' = Append(reqs, NewRequest("sign", 0, "", "signing", <<blob>>))
    /\ UNCHANGED <<calls, heap, options, writes, ident, js>>

\* The inner signer resolved.
RequestReturn(r) ==
    /\ reqs[r].pc = "signing"
    /\ LET sig == MockSign(ident.inner, reqs[r].signed[Len(reqs[r].signed)])
       IN  reqs' = [reqs EXCEPT ![r].pc = "done", ![r].sig = sig,
                      ![r].result = IF reqs[r].kind = "transform"
                                    THEN TransformedRequest(reqs[r], sig, ident, heap)
                                    ELSE NoResult]
    /\ UNCHANGED <<calls, heap, options, writes, ident, js>>

\* The inner signer rejected with e.
RequestReject(r, e) ==
    /\ reqs[r].pc = "signing"
    /\ reqs' = [reqs EXCEPT ![r].pc = "failed", ![r].thrown = e, ![r].error = e]
    /\ UNCHANGED <<calls, heap, options, writes, ident, js>>

Init ==
    /\ calls = <<>>
    /\ heap = <<>>
    /\ options = <<>>
    /\ writes = 0
    /\ ident = NoIdentity
    /\ reqs = <<>>
    /\ js = NoJson

\* The chain-building runs: create calls and the callers' writes to the
\* options objects.
Next ==
    \/ \E h \in (IF calls = <<>> THEN FirstHandovers ELSE Handovers),
          date \in Dates, prev \in 0..Len(calls) :
          CreateCall(MaxCreates, h[1], h[2], date, prev)
    \/ \E c \in DOMAIN calls, prev \in 0..Len(calls) : SetPrevious(c, prev)
    \/ \E c \in DOMAIN calls : CreateSign(c)
    \/ \E c \in DOMAIN calls, e \in HashErrors : CreateHashReject(c, e)
    \/ \E c \in DOMAIN calls : CreateReturn(c)
    \/ \E c \in DOMAIN calls, e \in SignErrors : CreateReject(c, e)

Spec == Init /\ [][Next]_vars

\* The identity runs: create calls that leave room for the identity and a
\* request on it, then fromDelegation, transformRequest and sign.
NextIdentity ==
    \/ \E h \in (IF calls = <<>> THEN FirstHandovers ELSE Handovers),
          date \in Dates, prev \in 0..Len(calls) :
          CreateCall(MaxOps - 2, h[1], h[2], date, prev)
    \/ \E c \in DOMAIN calls, prev \in 0..Len(calls) : SetPrevious(c, prev)
    \/ \E c \in DOMAIN calls : CreateSign(c)
    \/ \E c \in DOMAIN calls, e \in HashErrors : CreateHashReject(c, e)
    \/ \E c \in DOMAIN calls : CreateReturn(c)
    \/ \E c \in DOMAIN calls, e \in SignErrors : CreateReject(c, e)
    \/ \E key \in Signers, c \in DOMAIN calls : FromDelegation(key, c)
    \/ \E request \in Requests : TransformCall(request)
    \/ \E r \in DOMAIN reqs : TransformSign(r)
    \/ \E r \in DOMAIN reqs, e \in HashErrors : TransformHashReject(r, e)
    \/ \E blob \in Blobs : SignCall(blob)
    \/ \E r \in DOMAIN reqs : RequestReturn(r)
    \/ \E r \in DOMAIN reqs, e \in SignErrors : RequestReject(r, e)

SpecIdentity == Init /\ [][NextIdentity]_vars

\* ------------------------------------------------------------ JSON values
\* A value of JSON.parse: its type, its characters (a string; a number's
\* decimal text) or its items (an array). `undefined` is a property the parsed
\* object does not have. A character that cannot be written in a string here
\* is named by its code point, as "U+000B".
JUndef == [t |-> "undefined", s |-> <<>>, a |-> <<>>]
JNull == [t |-> "null", s |-> <<>>, a |-> <<>>]
JNumber(digits) == [t |-> "number", s |-> digits, a |-> <<>>]
JNum == JNumber(<<"5">>)
JStr(chars) == [t |-> "string", s |-> chars, a |-> <<>>]
JArr(items) == [t |-> "array", s |-> <<>>, a |-> items]

\* String(v) of a parsed value.
RECURSIVE StringOf(_)
StringOf(v) ==
    IF v.t = "undefined" THEN <<"u", "n", "d", "e", "f", "i", "n", "e", "d">>
    ELSE IF v.t = "null" THEN <<"n", "u", "l", "l">>
    ELSE IF v.t = "array"
      THEN IF v.a = <<>> THEN <<>>
           ELSE (IF v.a[1].t \in {"undefined", "null"} THEN <<>> ELSE StringOf(v.a[1]))
                   \o (IF Len(v.a) = 1 THEN <<>>
                       ELSE <<",">> \o StringOf(JArr(Tail(v.a))))
    ELSE v.s

HexChars == <<"0", "1", "2", "3", "4", "5", "6", "7", "8", "9",
              "a", "b", "c", "d", "e", "f">>
UpperHexChars == <<"0", "1", "2", "3", "4", "5", "6", "7", "8", "9",
                   "A", "B", "C", "D", "E", "F">>
IsLowerHex(ch) == \E i \in DOMAIN HexChars : HexChars[i] = ch
IsUpperHex(ch) == \E i \in DOMAIN UpperHexChars : UpperHexChars[i] = ch
IsHexChar(ch) == IsLowerHex(ch) \/ IsUpperHex(ch)
HexValue(ch) ==
    IF IsLowerHex(ch) THEN (CHOOSE i \in DOMAIN HexChars : HexChars[i] = ch) - 1
    ELSE (CHOOSE i \in DOMAIN UpperHexChars : UpperHexChars[i] = ch) - 1

\* The characters \w of a regular expression.
WordChars ==
    {"a", "b", "c", "d", "e", "f", "g", "h", "i", "j", "k", "l", "m", "n", "o",
     "p", "q", "r", "s", "t", "u", "v", "w", "x", "y", "z",
     "A", "B", "C", "D", "E", "F", "G", "H", "I", "J", "K", "L", "M", "N", "O",
     "P", "Q", "R", "S", "T", "U", "V", "W", "X", "Y", "Z",
     "0", "1", "2", "3", "4", "5", "6", "7", "8", "9", "_"}

\* The white space of ECMAScript, which parseInt skips and \s matches: tab,
\* line feed, vertical tab, form feed, carriage return, space, no-break space,
\* the space separators, the line and paragraph separators, the byte order
\* mark.
WhiteSpace ==
    {" ", "\t", "\n", "\f", "\r", "U+000B", "U+00A0", "U+1680",
     "U+2000", "U+2001", "U+2002", "U+2003", "U+2004", "U+2005", "U+2006",
     "U+2007", "U+2008", "U+2009", "U+200A", "U+2028", "U+2029", "U+202F",
     "U+205F", "U+3000", "U+FEFF"}

\* Not a number, of parseInt: no number of two hexadecimal digits and a sign.
NaN == -256

\* blob.toString('hex'): two lower-case digits a byte.
RECURSIVE HexEncode(_)
HexEncode(bytes) ==
    IF bytes = <<>> THEN <<>>
    ELSE <<HexChars[(Head(bytes) \div 16) + 1], HexChars[(Head(bytes) % 16) + 1]>>
            \o HexEncode(Tail(bytes))

\* parseInt(pair, 16) on two characters: white space is skipped, then a sign,
\* then the prefix "0x", and the digits of either case are read up to the
\* first character that is not one; not a number when there is no digit.
ParseIntPair(c1, c2) ==
    IF c1 \in WhiteSpace \cup {"+"} THEN (IF IsHexChar(c2) THEN HexValue(c2) ELSE NaN)
    ELSE IF c1 = "-" THEN (IF IsHexChar(c2) THEN 0 - HexValue(c2) ELSE NaN)
    ELSE IF ~IsHexChar(c1) \/ (c1 = "0" /\ c2 \in {"x", "X"}) THEN NaN
    ELSE IF IsHexChar(c2) THEN 16 * HexValue(c1) + HexValue(c2)
    ELSE HexValue(c1)

\* blobFromHex(hex): Buffer.from(hex, 'hex') of the package `buffer` writes a
\* byte for each pair of characters, parseInt(pair, 16) modulo 256, and stops
\* at the first pair that is not a number; an odd last character is dropped.
RECURSIVE blobFromHex(_)
blobFromHex(chars) ==
    IF Len(chars) < 2 \/ ParseIntPair(chars[1], chars[2]) = NaN THEN <<>>
    ELSE <<ParseIntPair(chars[1], chars[2]) % 256>>
            \o blobFromHex(SubSeq(chars, 3, Len(chars)))

\* ------------------------------------------------------------- BigNumber
RECURSIVE Pow16(_)
Pow16(k) == IF k = 0 THEN 1 ELSE 16 * Pow16(k - 1)

RECURSIVE Fraction(_, _)
Fraction(n, k) ==
    IF k > 0 /\ n % 16 = 0 THEN Fraction(n \div 16, k - 1)
    ELSE [kind |-> "finite", n |-> n, places |-> k]

RECURSIVE HexDigits(_)
HexDigits(n) ==
    IF n < 16 THEN <<HexChars[n + 1]>>
    ELSE Append(HexDigits(n \div 16), HexChars[(n % 16) + 1])

RECURSIVE FractionDigits(_, _)
FractionDigits(n, k) ==
    IF k = 0 THEN <<>>
    ELSE Append(FractionDigits(n \div 16, k - 1), HexChars[(n % 16) + 1])

InfinityText == <<"I", "n", "f", "i", "n", "i", "t", "y">>
NaNText == <<"N", "a", "N">>

\* toString(16) of a BigNumber: the digits in base 16, a point before the
\* fraction, "-" before a negative number.
BigNumberToString16(x) ==
    IF x.kind = "NaN" THEN NaNText
    ELSE IF x.kind = "Infinity"
      THEN (IF x.n < 0 THEN <<"-">> ELSE <<>>) \o InfinityText
    ELSE
      LET abs == IF x.n < 0 THEN 0 - x.n ELSE x.n
      IN  (IF x.n < 0 THEN <<"-">> ELSE <<>>)
             \o HexDigits(abs \div Pow16(x.places))
             \o (IF x.places = 0 THEN <<>>
                 ELSE <<".">> \o FractionDigits(abs % Pow16(x.places), x.places))

RECURSIVE HexNumber(_)
HexNumber(chars) ==
    IF chars = <<>> THEN 0
    ELSE 16 * HexNumber(SubSeq(chars, 1, Len(chars) - 1)) + HexValue(chars[Len(chars)])

\* The strings new BigNumber(str, 16) reads as they are, after the sign:
\* digits of one case, lower or upper and no mix of the two, with at most one
\* point, which is not the first character.
Points(chars) == {i \in DOMAIN chars : chars[i] = "."}
DigitsOfOneCase(chars) ==
    /\ Cardinality(Points(chars)) <= 1
    /\ 1 \notin Points(chars)
    /\ \/ \A i \in DOMAIN chars \ Points(chars) : IsLowerHex(chars[i])
       \/ \A i \in DOMAIN chars \ Points(chars) : IsUpperHex(chars[i])

\* The number these digits are in base 16; no digit is zero.
DigitsValue(chars) ==
    IF Points(chars) = {} THEN Finite(HexNumber(chars))
    ELSE LET p == CHOOSE i \in Points(chars) : TRUE
         IN  Fraction(HexNumber(SubSeq(chars, 1, p - 1) \o SubSeq(chars, p + 1, Len(chars))),
                      Len(chars) - p)

Negated(x) == [x EXCEPT !.n = 0 - x.n]

\* str.replace(whitespaceOrPlus, ''): the white space a string starts with,
\* with a "+" after it when a word character or a point follows, and the
\* white space it ends with.
LeadingSpace(chars) ==
    CHOOSE k \in 0..Len(chars) :
        /\ \A i \in 1..k : chars[i] \in WhiteSpace
        /\ k < Len(chars) => chars[k + 1] \notin WhiteSpace
TrailingSpace(chars) ==
    CHOOSE k \in 0..Len(chars) :
        /\ \A i \in (Len(chars) - k + 1)..Len(chars) : chars[i] \in WhiteSpace
        /\ k < Len(chars) => chars[Len(chars) - k] \notin WhiteSpace
TrimNumeric(chars) ==
    LET k    == LeadingSpace(chars)
        plus == /\ k + 2 <= Len(chars)
                /\ chars[k + 1] = "+"
                /\ chars[k + 2] \in WordChars \cup {"."}
        rest == SubSeq(chars, (IF plus THEN k + 2 ELSE k + 1), Len(chars))
    IN  SubSeq(rest, 1, Len(rest) - TrailingSpace(rest))

\* s.replace(basePrefix, ...) for base 16: "0x" or "0X" after the sign goes
\* when word characters and points follow it, a word character first.
WithoutPrefix(chars) ==
    LET neg  == chars # <<>> /\ chars[1] = "-"
        body == IF neg THEN Tail(chars) ELSE chars
    IN  IF /\ Len(body) >= 3
           /\ body[1] = "0"
           /\ body[2] \in {"x", "X"}
           /\ body[3] \in WordChars
           /\ \A i \in 3..Len(body) : body[i] \in WordChars \cup {"."}
        THEN (IF neg THEN <<"-">> ELSE <<>>) \o SubSeq(body, 3, Len(body))
        ELSE chars

\* s.replace(dotAfter, '$1').replace(dotBefore, '0.$1'): a point that is the
\* last character and the only point goes, and a string that starts with
\* its only point gets a "0" before it.
WithoutDots(chars) ==
    LET n      == Len(chars)
        after  == IF n >= 2 /\ Points(chars) = {n} THEN SubSeq(chars, 1, n - 1) ELSE chars
    IN  IF Len(after) >= 2 /\ Points(after) = {1} THEN <<"0">> \o after ELSE after

\* new BigNumber(value, 16) on String(value): the sign, the digits, and for
\* a string that is not digits parseNumeric, which reads Infinity and NaN,
\* and reads the string again when it had white space, a plus, a prefix or a
\* point to take away. A fraction is exact up to the decimal places the
\* library keeps, which the five places of the strings here are within.
RECURSIVE BigNumberOfString16(_)
BigNumberOfString16(str) ==
    LET neg  == str # <<>> /\ str[1] = "-"
        body == IF neg THEN Tail(str) ELSE str
        s    == TrimNumeric(str)
        t    == WithoutDots(WithoutPrefix(s))
    IN  IF DigitsOfOneCase(body)
          THEN (IF neg THEN Negated(DigitsValue(body)) ELSE DigitsValue(body))
        ELSE IF s = InfinityText THEN Infinite(1)
        ELSE IF s = <<"-">> \o InfinityText THEN Infinite(-1)
        ELSE IF s \in {NaNText, <<"-">> \o NaNText} THEN BigNaN
        ELSE IF t # str THEN BigNumberOfString16(t)
        ELSE BigNaN

BigNumberFrom16(v) == BigNumberOfString16(StringOf(v))

\* Principal.fromText and toText. The table holds the textual identifiers of
\* the runs that are principals: the management canister (no bytes) and the
\* anonymous principal (the byte 4). Principal.fromText rejects a text that
\* is not the text of a principal, as one with a character outside base32.
PrincipalTexts ==
    << [text |-> <<"a", "a", "a", "a", "a", "-", "a", "a">>, bytes |-> <<>>],
       [text |-> <<"2", "v", "x", "s", "x", "-", "f", "a", "e">>, bytes |-> <<4>>] >>
IsPrincipalText(chars) == \E i \in DOMAIN PrincipalTexts : PrincipalTexts[i].text = chars
PrincipalFromText(chars) ==
    IF IsPrincipalText(chars)
    THEN [err |-> "",
          principal |-> PrincipalTexts[CHOOSE i \in DOMAIN PrincipalTexts :
                                           PrincipalTexts[i].text = chars].bytes]
    ELSE [err |-> "Invalid principal text.", principal |-> <<>>]
PrincipalToText(p) ==
    PrincipalTexts[CHOOSE i \in DOMAIN PrincipalTexts :
                       PrincipalTexts[i].bytes = p.principal].text

\* ------------------------------------------------------------- parseBlob
parseBlob_NoLengthCheck(value) ==
    IF value.t # "string"
    THEN [err |-> "Invalid public key.", blob |-> <<>>]
    ELSE [err |-> "", blob |-> blobFromHex(value.s)]

parseBlob(value) ==
    IF value.t # "string" \/ Len(value.s) < MinHexLen
    THEN [err |-> "Invalid public key.", blob |-> <<>>]
    ELSE [err |-> "", blob |-> blobFromHex(value.s)]

\* ----------------------------------------------- DelegationChain.fromJSON
NoSigned == [delegation |-> [pubkey |-> <<>>, expiration |-> Finite(0),
                             hasTargets |-> FALSE, targets |-> <<>>],
             signature |-> <<>>]
EntryError(msg) == [err |-> msg, sd |-> NoSigned]
Thrown(msg) == [err |-> msg, chain |-> NoChain]

\* targets.map(...): the error of the first target that is not a string or
\* that Principal.fromText rejects, none when there is no such target.
TargetError(t) ==
    IF t.t # "string" THEN "Invalid target." ELSE PrincipalFromText(t.s).err
TargetsError(targets) ==
    LET bad == {i \in DOMAIN targets : TargetError(targets[i]) # ""}
    IN  IF bad = {} THEN ""
        ELSE TargetError(targets[CHOOSE i \in bad : \A j \in bad : i <= j])

\* The callback of delegations.map: one item of the array. Destructuring
\* undefined or null is a TypeError, the item or its `delegation`; any other
\* value destructures, to undefined properties when it has none.
ParseEntry(e) ==
    IF e.t \in {"undefined", "null"} \/ e.delegation.t \in {"undefined", "null"}
      THEN EntryError("TypeError")
    ELSE
      LET targets == e.delegation.targets
          pubkey  == parseBlob(e.delegation.pubkey)
          sig     == parseBlob(e.signature)
      IN  IF targets.t # "undefined" /\ targets.t # "array"
            THEN EntryError("Invalid targets.")
          ELSE IF pubkey.err # "" THEN EntryError(pubkey.err)
          ELSE IF targets.t = "array" /\ TargetsError(targets.a) # ""
            THEN EntryError(TargetsError(targets.a))
          ELSE IF sig.err # "" THEN EntryError(sig.err)
          ELSE [err |-> "",
                sd  |-> [delegation |->
                            [pubkey     |-> pubkey.blob,
                             expiration |-> BigNumberFrom16(e.delegation.expiration),
                             hasTargets |-> targets.t = "array",
                             targets    |-> [i \in DOMAIN targets.a |->
                                                [principal |->
                                                    PrincipalFromText(targets.a[i].s).principal]]],
                         signature |-> sig.blob]]

\* fromJSON on the value JSON.parse returned: the chain, or the error thrown.
fromJSON(doc) ==
    IF doc.delegations.t # "array" THEN Thrown("Invalid delegations.")
    ELSE
      LET items  == doc.delegations.a
          parsed == [i \in DOMAIN items |-> ParseEntry(items[i])]
          bad    == {i \in DOMAIN items : parsed[i].err # ""}
          root   == parseBlob(doc.publicKey)
      IN  IF bad # {}
            THEN Thrown(parsed[CHOOSE i \in bad : \A j \in bad : i <= j].err)
          ELSE IF root.err # "" THEN Thrown(root.err)
          ELSE [err   |-> "",
                chain |-> [delegations |-> [i \in DOMAIN items |-> parsed[i].sd],
                           publicKey   |-> root.blob]]

\* ------------------------------------------------- DelegationChain.toJSON
\* One item of `delegations`. Spreading the array of target texts into the
\* object literal gives the properties "0", "1", ... (`indexed`) and no
\* `targets` property.
SignedToJSON(sd) ==
    [t |-> "object",
     delegation |->
        [t          |-> "object",
         expiration |-> JStr(BigNumberToString16(sd.delegation.expiration)),
         pubkey     |-> JStr(HexEncode(sd.delegation.pubkey)),
         targets    |-> JUndef,
         indexed    |-> IF sd.delegation.hasTargets
                        THEN [j \in DOMAIN sd.delegation.targets |->
                                 JStr(PrincipalToText(sd.delegation.targets[j]))]
                        ELSE <<>>],
     signature |-> JStr(HexEncode(sd.signature))]

\* toJSON(): strings, arrays and objects only, which JSON text carries as
\* they are.
toJSON(chain) ==
    [delegations |-> JArr([i \in DOMAIN chain.delegations |->
                              SignedToJSON(chain.delegations[i])]),
     publicKey   |-> JStr(HexEncode(chain.publicKey))]

\* ------------------------------------------------- the serialization runs
\* Hexadecimal strings of 64 and of 62 characters.
KeyBytes(b, n) == [i \in 1..n |-> b]
GoodHex(b) == JStr(HexEncode(KeyBytes(b, MinHexLen \div 2)))
ShortHex(b) == JStr(HexEncode(KeyBytes(b, (MinHexLen \div 2) - 1)))

\* Strings of 64 characters: "AB" 32 times; "cd" 31 times and then "1g"; "12"
\* 31 times and then "g1".
UpperHex == JStr([i \in 1..MinHexLen |-> IF i % 2 = 1 THEN "A" ELSE "B"])
DigitThenLetter ==
    JStr(HexEncode(KeyBytes(205, (MinHexLen \div 2) - 1)) \o <<"1", "g">>)
LetterThenDigit ==
    JStr(HexEncode(KeyBytes(18, (MinHexLen \div 2) - 1)) \o <<"g", "1">>)
\* " f", "-1", "+1", a vertical tab and "2", a no-break space and "3", and
\* then "12" 27 times: the bytes 15, 255, 1, 2, 3, 18, ...
SignedPairs ==
    JStr(<<" ", "f", "-", "1", "+", "1", "U+000B", "2", "U+00A0", "3">>
            \o HexEncode(KeyBytes(18, (MinHexLen \div 2) - 5)))

\* A value with none of the properties fromJSON reads.
NoProperties(type) ==
    [t |-> type, pubkey |-> JUndef, expiration |-> JUndef,
     targets |-> JUndef, indexed |-> <<>>]

\* The last one holds a text with the character "8", which base32 has not.
TargetInputs ==
    { JUndef, JNull, JArr(<<>>),
      JArr(<<JStr(PrincipalTexts[2].text), JStr(PrincipalTexts[1].text)>>),
      JArr(<<JStr(PrincipalTexts[1].text), JNum>>),
      JArr(<<JStr(PrincipalTexts[1].text), JStr(<<"8">>)>>) }

\* 1000000 in base 16, and values of `expiration` that are not the digits of
\* a number in base 16: a sign, a prefix, both cases, white space and a plus,
\* Infinity, no character, a point, a number, no value.
MillionHex == JStr(<<"f", "4", "2", "4", "0">>)
ExpirationInputs ==
    { JStr(<<"-", "f">>), JStr(<<"-", "0", "x", "F", "4">>), JStr(<<"f", "F">>),
      JStr(<<" ", "+", "f", "U+FEFF">>), JStr(InfinityText), JStr(<<>>),
      JStr(<<"A", ".", "8">>), JStr(<<".", "8">>),
      JNumber(<<"2", "5", "5">>), JUndef }

ObjectDelegation(pk, ex, tg) ==
    [t |-> "object", pubkey |-> pk, expiration |-> ex, targets |-> tg, indexed |-> <<>>]

\* A `delegation` with a pubkey of 64 characters and each of the targets or
\* each of the expirations, and one with a pubkey that is short or a number
\* next to targets that are absent, null or hold a number.
DelegationInputs ==
    { ObjectDelegation(GoodHex(171), MillionHex, tg) : tg \in TargetInputs }
    \cup { ObjectDelegation(GoodHex(171), ex, JUndef) : ex \in ExpirationInputs }
    \cup { ObjectDelegation(ShortHex(171), MillionHex, tg) :
               tg \in {JUndef, JNull, JArr(<<JStr(PrincipalTexts[1].text), JNum>>)} }
    \cup { ObjectDelegation(JNum, MillionHex, JUndef) }

\* The items of `delegations`: objects, with a `delegation` that is an object,
\* absent or a number, and an item that is null and one that is a number.
EntryInputs ==
    { [t |-> "object", delegation |-> d, signature |-> DigitThenLetter] :
         d \in DelegationInputs }
    \cup { [t |-> "object", delegation |-> ObjectDelegation(GoodHex(171), MillionHex, tg),
            signature |-> ShortHex(205)] : tg \in TargetInputs }
    \cup { [t |-> "object", delegation |-> NoProperties(type), signature |-> GoodHex(205)] :
               type \in {"undefined", "number"} }
    \cup { [t |-> type, delegation |-> NoProperties("undefined"), signature |-> JUndef] :
               type \in {"null", "number"} }

RECURSIVE SeqsUpTo(_, _)
SeqsUpTo(S, n) ==
    IF n = 0 THEN {<<>>}
    ELSE SeqsUpTo(S, n - 1)
            \cup {Append(q, x) : q \in {q \in SeqsUpTo(S, n - 1) : Len(q) = n - 1}, x \in S}

\* The items the longer arrays are made of: each of the targets next to a
\* good pubkey and signature, a negative expiration, a short signature, a
\* short pubkey, no `delegation`, a `delegation` that is a number, null.
CoreEntryInputs ==
    { [t |-> "object", delegation |-> ObjectDelegation(GoodHex(171), MillionHex, tg),
       signature |-> DigitThenLetter] : tg \in TargetInputs }
    \cup { [t |-> "object",
            delegation |-> ObjectDelegation(GoodHex(171), JStr(<<"-", "f">>), JUndef),
            signature |-> DigitThenLetter],
           [t |-> "object", delegation |-> ObjectDelegation(GoodHex(171), MillionHex, JUndef),
            signature |-> ShortHex(205)],
           [t |-> "object", delegation |-> ObjectDelegation(ShortHex(171), MillionHex, JUndef),
            signature |-> DigitThenLetter],
           [t |-> "null", delegation |-> NoProperties("undefined"), signature |-> JUndef] }
    \cup { [t |-> "object", delegation |-> NoProperties(type), signature |-> GoodHex(205)] :
               type \in {"undefined", "number"} }

\* The parsed inputs: every array of up to MaxEntries of these items under a
\* root key of 64 hexadecimal digits, and each root key with each value of
\* `delegations` that is no array and each shorter array of any items.
RootInputs ==
    {GoodHex(18), UpperHex, LetterThenDigit, SignedPairs, ShortHex(18), JUndef}
JsonInputs ==
    { [publicKey |-> GoodHex(18), delegations |-> JArr(q)] :
         q \in SeqsUpTo(CoreEntryInputs, MaxEntries) }
    \cup { [publicKey |-> pk, delegations |-> ds] :
             pk \in RootInputs,
             ds \in {JUndef, JStr(<<"x">>)}
                       \cup {JArr(q) : q \in SeqsUpTo(EntryInputs, MaxEntries - 1)} }

NoDoc == [publicKey |-> JUndef, delegations |-> JUndef]

InitJSON ==
    /\ calls = <<>>
    /\ heap = <<>>
    /\ options = <<>>
    /\ writes = 0
    /\ ident = NoIdentity
    /\ reqs = <<>>
    /\ js \in { [pc |-> "input", doc |-> d, res |-> Thrown(""), out |-> NoDoc,
                 back |-> Thrown("")] : d \in JsonInputs }

\* DelegationChain.fromJSON(json) on the input.
FromJSON ==
    /\ js.pc = "input"
    /\ js' = [js EXCEPT !.pc = "parsed", !.res = fromJSON(js.doc)]
    /\ UNCHANGED <<calls, heap, options, writes, ident, reqs>>

\* JSON.stringify(chain), which calls chain.toJSON(), and JSON.parse of it.
ToJSON ==
    /\ js.pc = "parsed"
    /\ js.res.err = ""
    /\ js' = [js EXCEPT !.pc = "serialized", !.out = toJSON(js.res.chain)]
    /\ UNCHANGED <<calls, heap, options, writes, ident, reqs>>

\* DelegationChain.fromJSON on the serialized chain.
FromJSONAgain ==
    /\ js.pc = "serialized"
    /\ js' = [js EXCEPT !.pc = "reparsed", !.back = fromJSON(js.out)]
    /\ UNCHANGED <<calls, heap, options, writes, ident, reqs>>

NextJSON == FromJSON \/ ToJSON \/ FromJSONAgain

SpecJSON == InitJSON /\ [][NextJSON]_vars

\* ------------------------------------------------------------- the claims
Done == {c \in DOMAIN calls : calls[c].pc = "done"}
Transforms == {r \in DOMAIN reqs : reqs[r].kind = "transform"}

\* The chain call c extends (0: none): the one create read from
\* options.previous, or the one the options object holds while create has not
\* read it.
Extends(c) == IF calls[c].previous # NotRead THEN calls[c].previous ELSE options[c]

\* The first call of the sequence of create calls that built the chain call c
\* returned: each one extended the chain it read from options.previous.
RECURSIVE RootCall(_)
RootCall(c) == IF calls[c].previous = 0 THEN c ELSE RootCall(calls[c].previous)

\* The signed delegation call c asked for, and the entries the chain it
\* returned was built with.
ExpectedSigned(c) ==
    LET d == [pubkey |-> DerOf(calls[c].to), expiration |-> Finite(calls[c].date * 1000000),
              hasTargets |-> FALSE, targets |-> <<>>]
    IN  [delegation |-> d,
         signature  |-> MockSign(calls[c].from, domainSeparator \o requestIdOfDelegation(d))]

RECURSIVE ExpectedDelegations(_)
ExpectedDelegations(c) ==
    (IF calls[c].previous = 0 THEN <<>> ELSE ExpectedDelegations(calls[c].previous))
        \o <<ExpectedSigned(c)>>

\* sd carries the signature of the holder of the key with DER encoding der.
SignedByKey(sd, der) ==
    \E k \in Signers :
        /\ DerOf(k) = der
        /\ sd.signature = MockSign(k, domainSeparator \o requestIdOfDelegation(sd.delegation))

\* Every call that extended a chain on the way to c's chain was made by the
\* holder of the key the chain's last entry delegates to.
RECURSIVE Linked(_)
Linked(c) ==
    \/ calls[c].previous = 0
    \/ /\ calls[c].from = calls[calls[c].previous].to
       /\ Linked(calls[c].previous)

\* C1: the root public key of every chain built by a sequence of create
\* calls, the first one without `previous` and each later one on the result
\* of the one before, is the DER public key of the first call's `from`
\* signer, whatever signers and delegate keys the later calls used.
C1_RootKeyIsFirstSigner ==
    \A c \in Done : heap[c].publicKey = DerOf(calls[RootCall(c)].from)

C1_Witness ==
    \E c \in Done :
        /\ Len(heap[c].delegations) = 3
        /\ calls[c].from # calls[RootCall(c)].from
        /\ heap[c].publicKey = DerOf(calls[RootCall(c)].from)

\* C2: a successful create on a chain of n entries (n = 0 without `previous`)
\* returns a chain of n+1 entries: the n entries of the previous chain, in
\* order, and then the newly signed delegation for the DER key of `to`. The
\* previous chain is the one create reads from options.previous.
C2_CreateAppends ==
    \A c \in Done :
        LET p    == calls[c].previous
            base == IF p = 0 THEN <<>> ELSE heap[p].delegations
            n    == Len(base)
            ch   == heap[c].delegations
        IN  /\ Len(ch) = n + 1
            /\ SubSeq(ch, 1, n) = base
            /\ ch[n + 1].delegation.pubkey = DerOf(calls[c].to)
            /\ ch[n + 1].delegation.expiration = Finite(calls[c].date * 1000000)
            /\ ch[n + 1].signature = MockSign(calls[c].from, calls[c].signed[1])

C2_Witness ==
    \E c \in Done :
        /\ calls[c].previous # 0
        /\ Len(heap[calls[c].previous].delegations) = 2
        /\ Len(heap[c].delegations) = 3
        /\ calls[c].to # calls[calls[c].previous].to

\* C4 as stated: in every chain of the builder entry 0 is signed by the root
\* key and each entry i+1 by the holder of entry i's pubkey.
C4_EveryChainIsLinked ==
    \A c \in Done :
        LET ch == heap[c].delegations
        IN  /\ SignedByKey(ch[1], heap[c].publicKey)
            /\ \A i \in 1..(Len(ch) - 1) : SignedByKey(ch[i + 1], ch[i].delegation.pubkey)

\* C4, amended: entry 0 of every chain of the builder is signed by the root
\* key; each entry i+1 is signed by the holder of entry i's pubkey when every
\* extending call was made with that holder as `from` (create does not check).
C4_LinkedWhenCallersLink ==
    \A c \in Done :
        LET ch == heap[c].delegations
        IN  /\ SignedByKey(ch[1], heap[c].publicKey)
            /\ Linked(c) =>
                 \A i \in 1..(Len(ch) - 1) :
                     SignedByKey(ch[i + 1], ch[i].delegation.pubkey)

C4_Witness ==
    \E c \in Done :
        /\ Linked(c)
        /\ Len(heap[c].delegations) = 3
        /\ \A i \in 1..2 :
              SignedByKey(heap[c].delegations[i + 1], heap[c].delegations[i].delegation.pubkey)

\* C5: a finished transformRequest returns the request's other field unchanged
\* and the body {content, sender_sig, sender_delegation, sender_pubkey} made of
\* the original body, the inner signer's answer to the request domain
\* separator followed by the body's digest, the chain's entries in chain order
\* and the chain's root public key; the inner signer was called exactly once.
C5_TransformRequest ==
    \A r \in Transforms :
        reqs[r].pc = "done" =>
            LET msg == requestDomainSeparator \o requestIdOfBody(reqs[r].body)
                res == reqs[r].result
            IN  /\ reqs[r].signed = <<msg>>
                /\ res.endpoint = reqs[r].endpoint
                /\ res.content = reqs[r].body
                /\ res.sender_sig = MockSign(ident.inner, msg)
                /\ res.sender_delegation = ExpectedDelegations(ident.delegation)
                /\ res.sender_delegation = heap[ident.delegation].delegations
                /\ res.sender_pubkey = heap[ident.delegation].publicKey
                /\ res.sender_pubkey = DerOf(calls[RootCall(ident.delegation)].from)

C5_Witness ==
    \E r \in Transforms :
        /\ reqs[r].pc = "done"
        /\ Len(reqs[r].result.sender_delegation) = 2
        /\ reqs[r].result.sender_pubkey # DerOf(ident.inner)
        /\ reqs[r].result.sender_sig = MockSign(ident.inner, reqs[r].signed[1])

\* C6: getPublicKey().toDer() of the identity is the root public key of its
\* chain, not the inner signer's own key when the two differ, before and
\* after any sign and transformRequest calls on the identity.
C6_PublicKeyIsRoot ==
    ident # NoIdentity =>
        /\ GetPublicKeyToDer(ident, heap) = heap[ident.delegation].publicKey
        /\ GetPublicKeyToDer(ident, heap) = DerOf(calls[RootCall(ident.delegation)].from)
        /\ DerOf(ident.inner) # DerOf(calls[RootCall(ident.delegation)].from)
              => GetPublicKeyToDer(ident, heap) # DerOf(ident.inner)

C6_Witness ==
    /\ ident # NoIdentity
    /\ DerOf(ident.inner) # heap[ident.delegation].publicKey
    /\ GetPublicKeyToDer(ident, heap) = heap[ident.delegation].publicKey
    /\ \E r \in Transforms : reqs[r].pc = "done"
    /\ \E r \in DOMAIN reqs : reqs[r].kind = "sign" /\ reqs[r].pc = "done"

\* C8: a create whose signer rejected has failed with the signer's failure,
\* returned no chain (it never read options.previous), called sign exactly
\* once, and left the previous chain with the entries and the root public key
\* it was built with.
C8_SignFailurePropagates ==
    \A c \in DOMAIN calls :
        calls[c].thrown # "" =>
            /\ calls[c].pc = "failed"
            /\ calls[c].error = calls[c].thrown
            /\ heap[c] = NoChain
            /\ Len(calls[c].signed) = 1
            /\ calls[c].previous = NotRead
            /\ Extends(c) # 0 =>
                  /\ heap[Extends(c)].delegations = ExpectedDelegations(Extends(c))
                  /\ heap[Extends(c)].publicKey
                        = DerOf(calls[RootCall(Extends(c))].from)

C8_Witness ==
    \E c \in DOMAIN calls :
        /\ calls[c].pc = "failed"
        /\ calls[c].thrown \in SignErrors
        /\ Extends(c) # 0
        /\ Len(heap[Extends(c)].delegations) = 2
        /\ heap[c] = NoChain

\* C9: of the callers that extend the same chain C of n entries, each one that
\* returned holds C's n entries followed by its own new delegation only, in a
\* chain object of its own, and C holds the n entries and the root public key
\* it was built with, whatever the order in which the signers answered.
C9_ConcurrentExtension ==
    \A c1 \in DOMAIN calls, c2 \in DOMAIN calls :
        (c1 # c2 /\ Extends(c1) # 0 /\ Extends(c1) = Extends(c2)) =>
            LET p == Extends(c1)
            IN  /\ heap[p].delegations = ExpectedDelegations(p)
                /\ heap[p].publicKey = DerOf(calls[RootCall(p)].from)
                /\ \A c \in {c1, c2} :
                      IF calls[c].pc = "done"
                      THEN heap[c].delegations
                              = heap[p].delegations \o <<ExpectedSigned(c)>>
                      ELSE heap[c] = NoChain

\* Both callers were suspended on their signers at once, the later one has
\* returned and the earlier one has not.
C9_Witness ==
    \E c1 \in DOMAIN calls, c2 \in DOMAIN calls :
        /\ c1 < c2
        /\ Extends(c1) # 0
        /\ Extends(c1) = Extends(c2)
        /\ calls[c1].to # calls[c2].to
        /\ calls[c1].pc = "signing"
        /\ calls[c2].pc = "done"
        /\ Len(heap[c2].delegations) = 2

\* C10: every byte string create hands to a signer starts with the delegation
\* domain separator, every byte string transformRequest hands to a signer
\* starts with the request domain separator, and no message signed for a
\* delegation equals a message signed for a request.
C10_DomainSeparation ==
    /\ \A c \in DOMAIN calls : \A i \in DOMAIN calls[c].signed :
          IsPrefix(domainSeparator, calls[c].signed[i])
    /\ \A r \in Transforms : \A i \in DOMAIN reqs[r].signed :
          IsPrefix(requestDomainSeparator, reqs[r].signed[i])
    /\ \A c \in DOMAIN calls, r \in Transforms :
          \A i \in DOMAIN calls[c].signed, j \in DOMAIN reqs[r].signed :
              calls[c].signed[i] # reqs[r].signed[j]

\* A delegation and a request body with the same digest were both signed.
C10_Witness ==
    \E c \in DOMAIN calls, r \in Transforms :
        /\ requestIdOfDelegation(calls[c].delegation) = requestIdOfBody(reqs[r].body)
        /\ calls[c].signed # <<>>
        /\ reqs[r].signed # <<>>

\* The targets of a delegation, none and an empty list alike.
TargetsOf(d) == IF d.hasTargets THEN d.targets ELSE <<>>

\* C3: fromJSON of the serialized toJSON of a chain returns a chain with the
\* same root public key and the same entries in the same order, each with the
\* same pubkey, signature, expiration and targets.
C3_RoundTrip ==
    js.pc = "reparsed" =>
        /\ js.back.err = ""
        /\ js.back.chain.publicKey = js.res.chain.publicKey
        /\ Len(js.back.chain.delegations) = Len(js.res.chain.delegations)
        /\ \A i \in DOMAIN js.res.chain.delegations :
              LET was == js.res.chain.delegations[i]
                  is  == js.back.chain.delegations[i]
              IN  /\ is.delegation.pubkey = was.delegation.pubkey
                  /\ is.signature = was.signature
                  /\ is.delegation.expiration = was.delegation.expiration
                  /\ TargetsOf(is.delegation) = TargetsOf(was.delegation)

\* The conditions on the parsed input under which fromJSON is to raise.
IsHexField(v) == v.t = "string" /\ Len(v.s) >= MinHexLen
Malformed(doc) ==
    \/ doc.delegations.t # "array"
    \/ ~IsHexField(doc.publicKey)
    \/ \E i \in DOMAIN doc.delegations.a :
          LET e == doc.delegations.a[i]
          IN  \/ ~IsHexField(e.delegation.pubkey)
              \/ ~IsHexField(e.signature)
              \/ e.delegation.targets.t \notin {"undefined", "array"}
              \/ \E j \in DOMAIN e.delegation.targets.a :
                    e.delegation.targets.a[j].t # "string"

\* A target that is a string and not the text of a principal.
NotPrincipal(doc) ==
    \E i \in DOMAIN doc.delegations.a :
        \E j \in DOMAIN doc.delegations.a[i].delegation.targets.a :
            LET t == doc.delegations.a[i].delegation.targets.a[j]
            IN  t.t = "string" /\ ~IsPrincipalText(t.s)

\* A string of lower-case hexadecimal digits, two for each byte.
IsLowerHexText(v) ==
    /\ v.t = "string"
    /\ Len(v.s) % 2 = 0
    /\ \A i \in DOMAIN v.s : IsLowerHex(v.s[i])

\* The chain holds what the input held: an entry for each item, the bytes of
\* each key and signature given in lower-case digits, the targets of the
\* items that have them.
Holds(chain, doc) ==
    /\ Len(chain.delegations) = Len(doc.delegations.a)
    /\ IsLowerHexText(doc.publicKey) => HexEncode(chain.publicKey) = doc.publicKey.s
    /\ \A i \in DOMAIN doc.delegations.a :
          LET e  == doc.delegations.a[i]
              sd == chain.delegations[i]
          IN  /\ IsLowerHexText(e.delegation.pubkey)
                    => HexEncode(sd.delegation.pubkey) = e.delegation.pubkey.s
              /\ IsLowerHexText(e.signature) => HexEncode(sd.signature) = e.signature.s
              /\ sd.delegation.hasTargets <=> e.delegation.targets.t = "array"
              /\ Len(sd.delegation.targets) = Len(e.delegation.targets.a)
              /\ \A j \in DOMAIN e.delegation.targets.a :
                    PrincipalToText(sd.delegation.targets[j]) = e.delegation.targets.a[j].s

====
